---- MODULE Spec2Model ----
(***************************************************************************)
(* LLaMA_adapter.generate of llama/llama_adapter.py: the decoding driver   *)
(* with segmented prefill, prompt masking, early stop and finalisation,    *)
(* and the forward passes it drives: the layers, the hypernetwork that     *)
(* generates their LoRA parameters, the memory carried between calls.      *)
(* Positions and columns are 0-based, as in the source; a grid row is a    *)
(* sequence, so column c of a row is element c + 1.                        *)
(***************************************************************************)
EXTENDS Integers, Sequences, FiniteSets, TLC

\* ---------------------------------------------------------------- bounds
MaxPromptLen == 3
MaxGenLen == 2
MaxSegmentSize == 2
SmallSeqLen == 2
LargeSeqLen == 5
MainSeqLen == 7
MaxAnn == 3
MaxTrainCalls == 3

\* ------------------------------------------------- tokenizer and config
pad_id == 0
eos_id == 1
max_batch_size == 2
n_layers == 3

\* generate's default segment_size, and main's default min_gen_len scaled
\* to the model's sequence lengths.
DefaultSegmentSize == 768
min_gen_len == 1

\* The token counts of the three parts of the prompt template.
Prompt0Len == 1
Prompt1Len == 1
Prompt2Len == 1

\* Python's None where an integer may stand (hyper_lora_start, hyper_index).
None == -1

\* Strings are sequences of characters, so that `in` is the substring test.
Instruction == <<"i", "n", "s", "t", "r", "u", "c", "t", "i", "o", "n">>
Document == <<"d", "o", "c", "u", "m", "e", "n", "t">>
Both == <<"b", "o", "t", "h">>

\* An ordinary prompt token and an ordinary vocabulary entry.
PromptTok == 2
OtherTok == 7

\* The logits of one row range over the vocabulary the model scores.
Vocab == {eos_id, OtherTok}
LogitRows == {[t \in Vocab |-> IF t = f THEN 1 ELSE 0] : f \in Vocab}

VARIABLES
    prompts,          \* argument: the batch of token lists
    max_gen_len,      \* argument
    temperature,      \* argument: 0 is greedy, 1 stands for any value > 0
    segment_size,     \* argument
    max_seq_len,      \* self.llama.params.max_seq_len
    pc,               \* "entry", "loop", "finalize", "done", "error"
    total_len,
    tokens,           \* the token grid, a sequence of rows
    input_text_mask,  \* same shape as tokens
    prev_pos,
    cur_pos,          \* the loop variable of line 264 (next value to run)
    logits,           \* output of the last forward_inference call
    next_token,       \* the vector written by the last step
    early_stop,       \* the break of line 306 was taken
    iters,            \* history: the loop iterations run so far, with the
                      \* forward_inference calls each one made
    sampled,          \* next_token as sampled at line 298, before masking
    steps,            \* history: the number of columns written so far
    decoded,          \* the token lists handed to tokenizer.decode
    hyper_input_type, \* argument: a string
    hyper_input_spans, \* argument: one (start, end) per row, or fewer
    hyper_lora_start, \* self.hyper_lora_start
    serial_generate,  \* self.serial_generate
    model_args_segment_size, \* self.model_args.segment_size
    lora,             \* the LoRA parameters applied to each layer, if any
    pooling_states,   \* self.pooling_states
    memory,           \* local of generate, threaded through the calls
    norm_term,        \* local of generate, threaded through the calls
    fwd,              \* history: the forward_inference calls of this
                      \* generate call, with what each received and did
    gen,              \* history: the number of this generate call
    logit_rows,       \* the logit rows the loaded model can produce
    local_ann,        \* main: the records of this rank, sorted
    batchs,           \* main: split_list(local_ann, max_batch_size)
    main_pc,          \* main: "none" (generate is called directly),
                      \* "split", "loop"
    train             \* history: the calls of forward, the training pass

vars == <<prompts, max_gen_len, temperature, segment_size, max_seq_len, pc,
          total_len, tokens, input_text_mask, prev_pos, cur_pos, logits,
          next_token, early_stop, iters, sampled, steps, decoded,
          hyper_input_type, hyper_input_spans, hyper_lora_start,
          serial_generate, model_args_segment_size, lora, pooling_states,
          memory, norm_term, fwd, gen, logit_rows, local_ann, batchs, main_pc,
          train>>

hyper_args == <<hyper_input_type, hyper_input_spans>>
config == <<hyper_lora_start, serial_generate, model_args_segment_size,
            logit_rows>>
driver == <<local_ann, batchs, main_pc, train>>

args == <<prompts, max_gen_len, temperature, segment_size, max_seq_len>>

\* ------------------------------------------------------------- helpers
Min(a, b) == IF a < b THEN a ELSE b
Max(a, b) == IF a > b THEN a ELSE b

bsz == Len(prompts)
Rows == 1..bsz

\* min([len(t) for t in prompts]) and max([len(t) for t in prompts])
MinPromptSize(ps) ==
    CHOOSE n \in {Len(ps[k]) : k \in 1..Len(ps)} :
        \A m \in {Len(ps[k]) : k \in 1..Len(ps)} : n <= m
MaxPromptSize(ps) ==
    CHOOSE n \in {Len(ps[k]) : k \in 1..Len(ps)} :
        \A m \in {Len(ps[k]) : k \in 1..Len(ps)} : n >= m

\* memory, norm_term = {'long':{}, 'query':{}}, {} of generate call g; n
\* counts the layer calls that have updated the state since.
EmptyState(g) == [born |-> g, n |-> 0]
Touch(m) == [m EXCEPT !.n = @ + 1]

\* Python t[a:b] for 0 <= a, 0 <= b.
PySlice(t, a, b) == SubSeq(t, a + 1, Min(b, Len(t)))

\* Column c (0-based) of row k of the grid.
At(grid, k, c) == grid[k][c + 1]


\* ------------------------------------------------------ generate: entry
\* A variant that takes the larger of the two lengths.
TotalLenLarger(ps, mgl, msl) == Max(msl, mgl + MaxPromptSize(ps))

\* total_len = min(params.max_seq_len, max_gen_len + max_prompt_size)
TotalLen(ps, mgl, msl) == Min(msl, mgl + MaxPromptSize(ps))

\* torch.full((bsz, total_len), pad_id)
FullGrid(n, total) == [k \in 1..n |-> [c \in 1..total |-> pad_id]]

\* tokens[k, : len(t)] = torch.tensor(t): the sizes must agree.
PromptFits(t, total) == Len(t) <= total
WritePrompt(row, t) == [c \in 1..Len(row) |-> IF c <= Len(t) THEN t[c] ELSE row[c]]

\* The grid after the loop of lines 258-259 has run over rows 1..upto.
PromptGrid(ps, total, upto) ==
    [k \in 1..Len(ps) |->
        IF k <= upto THEN WritePrompt(FullGrid(Len(ps), total)[k], ps[k])
        ELSE FullGrid(Len(ps), total)[k]]

\* The first row whose prompt does not fit its grid row, 0 when all fit.
FirstMisfit(ps, total) ==
    IF \A k \in 1..Len(ps) : PromptFits(ps[k], total) THEN 0
    ELSE CHOOSE k \in 1..Len(ps) :
            /\ ~PromptFits(ps[k], total)
            /\ \A j \in 1..(k - 1) : PromptFits(ps[j], total)

\* input_text_mask = tokens != pad_id
PromptMask(grid) ==
    [k \in 1..Len(grid) |-> [c \in 1..Len(grid[k]) |-> grid[k][c] # pad_id]]

\* A variant that lets one prompt too many through.
BatchAcceptedLoose(n) == n <= max_batch_size + 1

\* assert bsz <= params.max_batch_size
BatchAccepted(n) == n <= max_batch_size

Setup ==
    /\ pc = "entry"
    /\ IF ~BatchAccepted(bsz)
       THEN /\ pc' = "error"
            /\ UNCHANGED <<total_len, tokens, input_text_mask, prev_pos, cur_pos>>
       ELSE LET total == TotalLen(prompts, max_gen_len, max_seq_len)
                bad == FirstMisfit(prompts, total)
            IN  /\ total_len' = total
                /\ IF bad # 0
                   THEN /\ pc' = "error"
                        /\ tokens' = PromptGrid(prompts, total, bad - 1)
                        /\ UNCHANGED <<input_text_mask, prev_pos, cur_pos>>
                   ELSE /\ tokens' = PromptGrid(prompts, total, bsz)
                        /\ input_text_mask' = PromptMask(tokens')
                        /\ cur_pos' = MinPromptSize(prompts)
                        /\ prev_pos' = 0
                        /\ pc' = IF MinPromptSize(prompts) < total
                                 THEN "loop" ELSE "finalize"
    /\ IF pc' = "error"
       THEN UNCHANGED <<memory, norm_term>>
       ELSE memory' = EmptyState(gen) /\ norm_term' = EmptyState(gen)
    /\ UNCHANGED <<args, logits, next_token, early_stop, iters, sampled, steps, decoded,
                   hyper_args, config, lora, pooling_states, fwd, gen, driver>>

\* ------------------------------------------------- the adapted model
\* self.llama.layers, by index.
LayerIds == [i \in 1..n_layers |-> i - 1]

\* self.llama.layers[:self.hyper_lora_start]
LayersBefore(start) ==
    IF start = None THEN LayerIds ELSE PySlice(LayerIds, 0, start)

\* self.llama.layers[self.hyper_lora_start:]
LayersFrom(start) == PySlice(LayerIds, start, n_layers)

\* if self.hyper_lora_start:
Truthy(start) == start # None /\ start # 0

\* No LoRA parameters applied to any layer yet.
NoLora == [i \in 1..n_layers |-> <<>>]

\* The state of one forward pass: h after so many layers, the memory and
\* norm_term as last returned by a layer, the LoRA parameters in place,
\* the hypernetwork invocations made and the layers run so far.
Pass(mem, norm, lo) ==
    [h |-> 0, memory |-> mem, norm_term |-> norm, lora |-> lo,
     hyper |-> <<>>, ran |-> <<>>]

\* h, memory, norm_term = layer(h, start_pos, freqs_cis, mask, prompt_mask,
\* memory, norm_term), run with the LoRA parameters the layer holds.
RunLayer(st, l) ==
    [st EXCEPT !.h = @ + 1,
               !.memory = Touch(@),
               !.norm_term = Touch(@),
               !.ran = Append(@, [layer |-> l, lora |-> st.lora[l + 1]])]

RECURSIVE RunLayers(_, _, _)
RunLayers(st, ls, i) ==
    IF i > Len(ls) THEN st ELSE RunLayers(RunLayer(st, ls[i]), ls, i + 1)

\* denom = torch.sum(prompt_mask, -1), of a mask of zeros and ones.
Denom(pm) ==
    [k \in 1..Len(pm) |-> Cardinality({c \in 1..Len(pm[k]) : pm[k][c] = 1})]

\* torch.sum(h * prompt_mask.unsqueeze(-1), dim=1) / denom: one pooled
\* block of the feature axis, the masked sum of h over the positions
\* divided row by row; no concatenation follows it.
Pool(h, pm, denom) == <<[h |-> h, weights |-> pm, denom |-> denom]>>

\* Float division by zero raises nothing: 0 / 0 is NaN.
IsNaN(pooled) ==
    \E i \in 1..Len(pooled) : \E k \in 1..Len(pooled[i].denom) :
        pooled[i].denom[k] = 0

\* One invocation self.lora_hyper_net(pooled[, hyper_index=i]) made in
\* forward call id, and entry k of what it returns.
HyperNet(pooled, hyper_index, id) ==
    [pooled |-> pooled, hyper_index |-> hyper_index, call |-> id]
Param(inv, k) == [inv |-> inv, head |-> k]

\* layer.apply_lora_params(param[0], ..., param[5])
ApplyLora(lo, l, p) == [lo EXCEPT ![l + 1] = <<p>>]

\* for hi, layer in enumerate(self.llama.layers[self.hyper_lora_start:]):
\*     layer.apply_lora_params(*params[hi])
ApplyParams(lo, start, inv) ==
    [l \in 1..n_layers |->
        IF l - 1 >= start THEN <<Param(inv, l - 1 - start)>> ELSE lo[l]]

\* A variant that generates parameters in the first generate call only.
ParallelGenerateFirst(st, start, pm, id) ==
    IF id.gen > 1 THEN st
    ELSE LET inv == HyperNet(Pool(st.h, pm, Denom(pm)), None, id)
         IN  [st EXCEPT !.hyper = Append(@, inv),
                        !.lora = ApplyParams(@, start, inv)]

\* Lines 197-207: pool once, one hypernetwork call, parameters to all.
ParallelGenerate(st, start, pm, id) ==
    LET inv == HyperNet(Pool(st.h, pm, Denom(pm)), None, id)
    IN  [st EXCEPT !.hyper = Append(@, inv),
                   !.lora = ApplyParams(@, start, inv)]

\* Lines 214-224: per hyper-adapted layer, at start_pos 0 pool the current
\* h, call the hypernetwork for this layer, apply; then run the layer.
RECURSIVE SerialLayers(_, _, _, _, _, _)
SerialLayers(st, ls, i, sp, pm, id) ==
    IF i > Len(ls) THEN st
    ELSE LET inv == HyperNet(Pool(st.h, pm, Denom(pm)), i - 1, id)
             st1 == IF sp = 0
                    THEN [st EXCEPT !.hyper = Append(@, inv),
                                    !.lora = ApplyLora(@, ls[i], Param(inv, i - 1))]
                    ELSE st
         IN  SerialLayers(RunLayer(st1, ls[i]), ls, i + 1, sp, pm, id)

\* The hyper-adapted block of forward_inference, lines 189-224.
HyperBlock(st, start, serial, sp, pm, id) ==
    IF ~Truthy(start) THEN st
    ELSE IF ~serial
         THEN RunLayers(IF sp = 0 THEN ParallelGenerate(st, start, pm, id) ELSE st,
                        LayersFrom(start), 1)
         ELSE SerialLayers(st, LayersFrom(start), 1, sp, pm, id)

\* mask = torch.full((1, 1, segment_size, segment_size), float("-inf")) of
\* self.model_args, then triu: the shape of the causal mask of a call.
MaskShape(S) == <<1, 1, S, S>>

\* forward_inference(tokens, start_pos, prompt_mask, memory, norm_term):
\* the layers before the hyper-adapted ones, the hyper-adapted block, then
\* the output of the last position.
ForwardInference(sp, pm, mem, norm, lo, start, serial, id) ==
    HyperBlock(RunLayers(Pass(mem, norm, lo), LayersBefore(start), 1),
               start, serial, sp, pm, id)

\* ------------------------------------------- generate: segmented prefill
\* Variants of the test with the boundary moved by one.
NeedSegmentLate(pp, cp, S) == pp = 0 /\ cp > S + 1
NeedSegmentEarly(pp, cp, S) == pp = 0 /\ cp >= S

\* need segment: prev_pos == 0 and cur_pos > segment_size
NeedSegment(pp, cp, S) == pp = 0 /\ cp > S

\* A variant whose first split point lies one column too far.
RangeStepShifted(a, b, s) ==
    IF b <= a + 1 THEN <<>>
    ELSE [i \in 1..((b - a - 1 + s - 1) \div s) |-> a + 1 + (i - 1) * s]

\* list(range(a, b, s)) for s > 0
RangeStep(a, b, s) ==
    IF b <= a THEN <<>>
    ELSE [i \in 1..((b - a + s - 1) \div s) |-> a + (i - 1) * s]

\* torch.tensor_split(x, idx, dim=1) of n columns: the column range of
\* each piece, x[:, :idx[0]], x[:, idx[0]:idx[1]], ..., x[:, idx[-1]:].
TensorSplit(n, idx) ==
    [i \in 1..(Len(idx) + 1) |->
        [lo |-> IF i = 1 THEN 0 ELSE idx[i - 1],
         hi |-> IF i = Len(idx) + 1 THEN n ELSE idx[i]]]

\* One forward_inference call: the start_pos argument, the number of
\* positions passed, whether prompt_mask is passed, the grid columns passed.
Call(sp, lo, hi, wm) ==
    [start_pos |-> sp, seqlen |-> hi - lo, with_mask |-> wm, lo |-> lo, hi |-> hi]

\* The loop of lines 269-281 from piece i on.
RECURSIVE SegLoop(_, _, _, _)
SegLoop(segs, i, local_start_pos, pp) ==
    IF i > Len(segs) THEN <<>>
    ELSE <<Call(local_start_pos, pp + segs[i].lo, pp + segs[i].hi,
                local_start_pos = 0)>>
            \o SegLoop(segs, i + 1,
                       local_start_pos + (segs[i].hi - segs[i].lo), pp)

SegmentCalls(pp, cp, S) ==
    SegLoop(TensorSplit(cp - pp, RangeStep(S, cp - pp, S)), 1, 0, pp)

\* A variant that numbers the positions of every call from zero.
PlainCallsFromZero(pp, cp) == <<Call(0, pp, cp, pp = 0)>>

\* Lines 283-291: a single call over tokens[:, prev_pos:cur_pos].
PlainCalls(pp, cp) == <<Call(pp, pp, cp, pp = 0)>>

\* range() refuses a zero step.
SplitFails(S) == S = 0

\* h[:, -1, :] of forward_inference needs at least one position.
ForwardFails(c) == c.seqlen = 0

\* The calls one iteration of the loop of line 264 sets out to make.
IterationCalls(pp, cp, S) ==
    IF NeedSegment(pp, cp, S)
    THEN (IF SplitFails(S) THEN <<>> ELSE SegmentCalls(pp, cp, S))
    ELSE PlainCalls(pp, cp)

IterationFails(pp, cp, S) ==
    \/ NeedSegment(pp, cp, S) /\ SplitFails(S)
    \/ \E i \in 1..Len(IterationCalls(pp, cp, S)) :
            ForwardFails(IterationCalls(pp, cp, S)[i])

\* ------------------------------------------------- forward (training)
\* A variant that leaves the parameters of the first segment in place.
ParallelKeep(st, start, cached, id) == st

\* Lines 135-139: params = self.lora_hyper_net(self.pooling_states),
\* applied to every hyper-adapted layer.
ParallelRegenerate(st, start, cached, id) ==
    LET inv == HyperNet(cached, None, id)
    IN  [st EXCEPT !.hyper = Append(@, inv),
                   !.lora = ApplyParams(@, start, inv)]

\* The hyper-adapted block of forward, lines 114-156.
TrainBlock(st, start, serial, sp, pm, cached, id) ==
    IF ~Truthy(start) THEN st
    ELSE IF ~serial
         THEN RunLayers(IF sp = 0 THEN ParallelGenerate(st, start, pm, id)
                        ELSE ParallelRegenerate(st, start, cached, id),
                        LayersFrom(start), 1)
         ELSE SerialLayers(st, LayersFrom(start), 1, sp, pm, id)

\* forward(tokens, labels, start_pos, prompt_mask, memory, norm_term)
Forward(sp, pm, mem, norm, lo, start, serial, cached, id) ==
    TrainBlock(RunLayers(Pass(mem, norm, lo), LayersBefore(start), 1),
               start, serial, sp, pm, cached, id)

\* self.pooling_states = pooling_states.detach(), line 134
CachesPooled(start, serial, sp) == Truthy(start) /\ ~serial /\ sp = 0

\* self.lora_hyper_net(self.pooling_states) while self.pooling_states is
\* still None.
RegenerateFails(start, serial, sp, cached) ==
    Truthy(start) /\ ~serial /\ sp # 0 /\ cached = <<>>

\* The prompt masks the training loop passes: one row, a span or nothing.
TrainMasks == {<<<<1, 0>>>>, <<<<0, 0>>>>}

\* One call of forward by the training loop, on the segment that starts
\* at start_pos, with the state the loop holds from the call before.
TrainCall ==
    /\ pc = "train"
    /\ Len(train) < MaxTrainCalls
    /\ \E sp \in {0, MaxSegmentSize} : \E pm \in TrainMasks :
        LET id == [gen |-> 0, n |-> Len(train) + 1]
            bad == RegenerateFails(hyper_lora_start, serial_generate, sp,
                                   pooling_states)
            out == IF bad THEN Pass(memory, norm_term, lora)
                   ELSE Forward(sp, pm, memory, norm_term, lora,
                                hyper_lora_start, serial_generate,
                                pooling_states, id)
        IN  /\ train' = Append(train,
                    [start_pos |-> sp, prompt_mask |-> pm,
                     cached |-> pooling_states, hyper |-> out.hyper,
                     ran |-> out.ran, failed |-> bad])
            /\ lora' = out.lora
            /\ memory' = out.memory
            /\ norm_term' = out.norm_term
            /\ pooling_states' =
                    IF CachesPooled(hyper_lora_start, serial_generate, sp)
                    THEN out.hyper[1].pooled ELSE pooling_states
            /\ pc' = IF bad THEN "error" ELSE "train"
    /\ UNCHANGED <<args, total_len, tokens, input_text_mask, prev_pos,
                   cur_pos, logits, next_token, early_stop, iters, sampled,
                   steps, decoded, hyper_args, config, fwd, gen, local_ann,
                   batchs, main_pc>>

\* --------------------------------------------- generate: pooling mask
\* a in b, of two strings.
IsSubstring(a, b) ==
    \E i \in 0..(Len(b) - Len(a)) : SubSeq(b, i + 1, i + Len(a)) = a

\* if hyper_input_type in ('instruction'):
InstructionTest(t) == IsSubstring(t, Instruction)

Float(b) == IF b THEN 1 ELSE 0

\* input_text_mask[:, lo:hi].clone().float()
TextMask(mask, lo, hi) ==
    [k \in 1..Len(mask) |->
        [c \in 1..(Min(hi, Len(mask[k])) - lo) |-> Float(mask[k][lo + c])]]

\* prompt_mask = torch.zeros_like(prompt_mask), then for row j
\* prompt_mask[j, h_span[0]:h_span[1]] = 1; the slice ends with the row.
\* hyper_input_spans holds at most one span per row.
SpanMask(spans, n, width) ==
    [k \in 1..n |->
        [c \in 1..width |->
            IF k <= Len(spans) /\ spans[k][1] < c /\ c <= spans[k][2]
            THEN 1 ELSE 0]]

\* assert h_span[1] <= segment_size, line 276
SpanAssertFails(t, spans, S) ==
    InstructionTest(t) /\ \E j \in 1..Len(spans) : spans[j][2] > S

\* The prompt_mask of a call with start_pos 0: lines 272-277 on the
\* segmented branch, lines 284-288 on the other.
PromptMaskOf(segmented, c, mask, t, spans, S) ==
    LET base == IF segmented THEN TextMask(mask, 0, S)
                ELSE TextMask(mask, c.lo, c.hi)
    IN  IF InstructionTest(t)
        THEN SpanMask(spans, Len(mask), Len(base[1]))
        ELSE base

\* A variant that starts every call from fresh memory.
CarryFresh(st, out) == [memory |-> EmptyState(0), norm_term |-> EmptyState(0)]

\* logits, memory, norm_term = self.forward_inference(...): what the next
\* call receives.
Carry(st, out) == [memory |-> out.memory, norm_term |-> out.norm_term]

\* The calls cs[i..] of one iteration, made in order on the running state
\* st: the memory and norm_term in hand, the LoRA parameters in place and
\* the log of calls. A call of zero positions raises at its return.
RECURSIVE RunCalls(_, _, _, _)
RunCalls(cs, i, st, segmented) ==
    IF i > Len(cs) \/ st.failed THEN st
    ELSE LET c == cs[i]
             pm == IF c.with_mask
                   THEN PromptMaskOf(segmented, c, input_text_mask,
                                     hyper_input_type, hyper_input_spans,
                                     segment_size)
                   ELSE <<>>
             id == [gen |-> gen, n |-> Len(st.fwd) + 1]
             out == ForwardInference(c.start_pos, pm, st.memory, st.norm_term,
                                     st.lora, hyper_lora_start,
                                     serial_generate, id)
             bad == ForwardFails(c)
             next == IF bad THEN [memory |-> st.memory, norm_term |-> st.norm_term]
                     ELSE Carry(st, out)
         IN  RunCalls(cs, i + 1,
                      [memory |-> next.memory,
                       norm_term |-> next.norm_term,
                       lora |-> out.lora,
                       failed |-> bad,
                       fwd |-> Append(st.fwd,
                                [start_pos |-> c.start_pos, lo |-> c.lo,
                                 hi |-> c.hi, prompt_mask |-> pm,
                                 mask |-> MaskShape(model_args_segment_size),
                                 mem_in |-> st.memory,
                                 norm_in |-> st.norm_term,
                                 mem_out |-> out.memory,
                                 norm_out |-> out.norm_term,
                                 hyper |-> out.hyper, ran |-> out.ran,
                                 failed |-> bad])],
                      segmented)

\* ------------------------------------------------------ generate: step
\* A variant that takes the entry with the lowest logit.
ArgmaxLowest(row) ==
    CHOOSE t \in Vocab :
        \A u \in Vocab : row[u] > row[t] \/ (row[u] = row[t] /\ t <= u)

\* torch.argmax(logits, dim=-1) of one row: the first index of the maximum.
Argmax(row) ==
    CHOOSE t \in Vocab :
        \A u \in Vocab : row[u] < row[t] \/ (row[u] = row[t] /\ t <= u)

\* Lines 293-298: the tokens one row of logits can yield.  sample_top_p
\* draws from the nucleus, which may hold any entry of the vocabulary.
SampleRow(temp, row) == IF temp > 0 THEN Vocab ELSE {Argmax(row)}

\* A variant with the two branches exchanged.
WhereSwapped(cond, a, b) == IF cond THEN b ELSE a

\* torch.where(input_text_mask[:, cur_pos], tokens[:, cur_pos], next_token)
Where(cond, a, b) == IF cond THEN a ELSE b

MaskedNext(grid, mask, cp, nt) ==
    [k \in 1..Len(grid) |-> Where(At(mask, k, cp), At(grid, k, cp), nt[k])]

\* tokens[:, cur_pos] = next_token
WriteColumn(grid, cp, nt) ==
    [k \in 1..Len(grid) |->
        [c \in 1..Len(grid[k]) |-> IF c = cp + 1 THEN nt[k] ELSE grid[k][c]]]

\* Variants of the stop test: on the wrong token, and for any batch size.
ShouldBreakOnPad(n, nt) == n = 1 /\ nt[1] = pad_id
ShouldBreakAnyBatch(n, nt) == nt[1] = eos_id

\* trick: early stop if bsz==1
ShouldBreak(n, nt) == n = 1 /\ nt[1] = eos_id

\* The span assert stops a segmented prefill before its first call.
SpanFails(pp, cp, S) ==
    /\ NeedSegment(pp, cp, S)
    /\ ~SplitFails(S)
    /\ SpanAssertFails(hyper_input_type, hyper_input_spans, S)

StepFails(pp, cp, S) == IterationFails(pp, cp, S) \/ SpanFails(pp, cp, S)

\* The calls an iteration makes: those it sets out to make, unless the
\* span assert fails first.
CallsMade(pp, cp, S) ==
    IF SpanFails(pp, cp, S) THEN <<>> ELSE IterationCalls(pp, cp, S)

\* One iteration of the loop of line 264.
Iterate ==
    /\ pc = "loop"
    /\ iters' = Append(iters,
                       [segmented |-> NeedSegment(prev_pos, cur_pos, segment_size),
                        failed |-> StepFails(prev_pos, cur_pos, segment_size),
                        cur_pos |-> cur_pos,
                        calls |-> IterationCalls(prev_pos, cur_pos, segment_size)])
    /\ LET out == RunCalls(CallsMade(prev_pos, cur_pos, segment_size), 1,
                           [memory |-> memory, norm_term |-> norm_term,
                            lora |-> lora, failed |-> FALSE, fwd |-> fwd],
                           NeedSegment(prev_pos, cur_pos, segment_size))
       IN  /\ memory' = out.memory
           /\ norm_term' = out.norm_term
           /\ lora' = out.lora
           /\ fwd' = out.fwd
    /\ IF StepFails(prev_pos, cur_pos, segment_size)
       THEN /\ pc' = "error"
            /\ UNCHANGED <<tokens, prev_pos, cur_pos, logits, next_token,
                           early_stop, sampled, steps>>
       ELSE \E lg \in [Rows -> logit_rows] :
            \E nt \in [Rows -> Vocab] :
                /\ \A k \in Rows : nt[k] \in SampleRow(temperature, lg[k])
                /\ logits' = lg
                /\ sampled' = nt
                /\ steps' = steps + 1
                /\ next_token' = MaskedNext(tokens, input_text_mask, cur_pos, nt)
                /\ tokens' = WriteColumn(tokens, cur_pos, next_token')
                /\ IF ShouldBreak(bsz, next_token')
                   THEN /\ early_stop' = TRUE
                        /\ pc' = "finalize"
                        /\ UNCHANGED <<prev_pos, cur_pos>>
                   ELSE /\ prev_pos' = cur_pos
                        /\ cur_pos' = cur_pos + 1
                        /\ pc' = IF cur_pos + 1 < total_len
                                 THEN "loop" ELSE "finalize"
                        /\ UNCHANGED early_stop
    /\ UNCHANGED <<args, total_len, input_text_mask, decoded, hyper_args,
                   config, pooling_states, gen, driver>>

\* --------------------------------------------------- generate: finalize
\* cut to max gen len: t[len(prompts[i]): len(prompts[i]) + max_gen_len]
CutMaxGen(t, plen, mgl) == PySlice(t, plen, plen + mgl)

\* t.index(eos_id), 0-based; only used when eos_id occurs in t.
Index(t, x) == (CHOOSE i \in 1..Len(t) : t[i] = x /\ \A j \in 1..(i - 1) : t[j] # x) - 1

\* A variant that keeps the end-of-sequence token.
CutEosInclusive(t) ==
    IF \E i \in 1..Len(t) : t[i] = eos_id
    THEN PySlice(t, 0, Index(t, eos_id) + 1)
    ELSE t

\* cut to eos tok if any
CutEos(t) ==
    IF \E i \in 1..Len(t) : t[i] = eos_id
    THEN PySlice(t, 0, Index(t, eos_id))
    ELSE t

Finalize ==
    /\ pc = "finalize"
    /\ decoded' = [i \in Rows |->
                      CutEos(CutMaxGen(tokens[i], Len(prompts[i]), max_gen_len))]
    /\ pc' = "done"
    /\ UNCHANGED <<args, total_len, tokens, input_text_mask, prev_pos, cur_pos,
                   logits, next_token, early_stop, iters, sampled, steps,
                   hyper_args, config, lora, pooling_states, memory,
                   norm_term, fwd, gen, driver>>

\* ------------------------------------------------------ example.py
\* range(0, n, size), size > 0
Range(n, size) == [i \in 1..((n + size - 1) \div size) |-> (i - 1) * size]

\* split_list: [lst[i:i+size] for i in range(0, len(lst), size)]
SplitList(lst, size) ==
    [i \in 1..Len(Range(Len(lst), size)) |->
        PySlice(lst, Range(Len(lst), size)[i], Range(Len(lst), size)[i] + size)]

\* batchs = split_list(local_ann, max_batch_size), line 170
SplitBatches ==
    /\ main_pc = "split"
    /\ batchs' = SplitList(local_ann, max_batch_size)
    /\ main_pc' = "loop"
    /\ UNCHANGED <<args, pc, total_len, tokens, input_text_mask, prev_pos,
                   cur_pos, logits, next_token, early_stop, iters, sampled,
                   steps, decoded, hyper_args, config, lora, pooling_states,
                   memory, norm_term, fwd, gen, local_ann, train>>

\* t[:b], b of either sign
PySliceTo(t, b) ==
    IF b < 0 THEN SubSeq(t, 1, Len(t) + b) ELSE SubSeq(t, 1, Min(b, Len(t)))

Toks(n) == [i \in 1..n |-> PromptTok]

\* model.tokenizer.encode(input, bos=False, eos=False): the tokens of an
\* input of n tokens, all different.
InputToks(n) == [i \in 1..n |-> PromptTok + i]

\* Lines 195-209 for one record x: the spans and the prompt.
InstructionSpan(x) == <<Prompt0Len, Prompt0Len + x.instruction>>
Part1Len(x) == Prompt0Len + x.instruction + Prompt1Len
MaxInputLength(x, msl) == msl - (Part1Len(x) + Prompt2Len + min_gen_len)
InputToken(x, msl) == PySliceTo(InputToks(x.input), MaxInputLength(x, msl))
DocumentSpan(x, msl) == <<Part1Len(x), Part1Len(x) + Len(InputToken(x, msl))>>
BuildPrompt(x, msl) == Toks(Part1Len(x)) \o InputToken(x, msl) \o Toks(Prompt2Len)

\* Lines 211-216: what is appended to hyper_input_spans for record x.
SpansOf(batch, t, msl) ==
    IF t = Instruction THEN [k \in 1..Len(batch) |-> InstructionSpan(batch[k])]
    ELSE IF t = Document THEN [k \in 1..Len(batch) |-> DocumentSpan(batch[k], msl)]
    ELSE IF t = Both
         THEN [k \in 1..Len(batch) |->
                    <<InstructionSpan(batch[k]), DocumentSpan(batch[k], msl)>>]
         ELSE <<>>

\* One turn of the loop of line 185: build the prompts and spans of the
\* next batch and call generate, which starts with fresh locals.
NextBatch ==
    /\ main_pc = "loop"
    /\ pc \in {"idle", "done"}
    /\ gen < Len(batchs)
    /\ gen' = gen + 1
    /\ prompts' = [k \in 1..Len(batchs[gen']) |-> BuildPrompt(batchs[gen'][k], max_seq_len)]
    /\ hyper_input_spans' = SpansOf(batchs[gen'], hyper_input_type, max_seq_len)
    /\ pc' = "entry"
    /\ total_len' = 0
    /\ tokens' = <<>>
    /\ input_text_mask' = <<>>
    /\ prev_pos' = 0
    /\ cur_pos' = 0
    /\ logits' = <<>>
    /\ next_token' = <<>>
    /\ early_stop' = FALSE
    /\ iters' = <<>>
    /\ sampled' = <<>>
    /\ steps' = 0
    /\ decoded' = <<>>
    /\ fwd' = <<>>
    /\ UNCHANGED <<max_gen_len, temperature, segment_size, max_seq_len,
                   hyper_input_type, config, lora, pooling_states, memory,
                   norm_term, driver>>

\* ------------------------------------------------------ specification
\* Prompts of every length up to MaxPromptLen: ordinary tokens, the last
\* of which may have the pad value.
PromptPool ==
    {[i \in 1..n |-> PromptTok] : n \in 0..MaxPromptLen}
        \cup {[i \in 1..n |-> IF i = n THEN pad_id ELSE PromptTok] : n \in 1..MaxPromptLen}

\* The end-to-end scenario: one prompt, room for three generated tokens.
Scenario == [prompt |-> <<5, 9, 2>>, max_gen_len |-> 3, max_seq_len |-> 6]

\* Every batch the configuration accepts, and batches of one prompt too many.
PromptBatches ==
    UNION {[1..n -> PromptPool] : n \in 1..max_batch_size}
        \cup {[k \in 1..(max_batch_size + 1) |-> p] : p \in PromptPool}

InitFrame ==
    /\ total_len = 0
    /\ tokens = <<>>
    /\ input_text_mask = <<>>
    /\ prev_pos = 0
    /\ cur_pos = 0
    /\ logits = <<>>
    /\ next_token = <<>>
    /\ early_stop = FALSE
    /\ iters = <<>>
    /\ sampled = <<>>
    /\ steps = 0
    /\ decoded = <<>>
    /\ memory = EmptyState(0)
    /\ norm_term = EmptyState(0)
    /\ fwd = <<>>

InitLocals == pc = "entry" /\ InitFrame

\* The model object after construction and loading.
InitModel ==
    /\ lora = NoLora
    /\ pooling_states = <<>>

\* generate is called directly, once.
NoDriver ==
    /\ gen = 1
    /\ local_ann = <<>>
    /\ batchs = <<>>
    /\ main_pc = "none"
    /\ train = <<>>

Init ==
    /\ \/ /\ prompts \in PromptBatches
          /\ max_gen_len \in 0..MaxGenLen
          /\ max_seq_len \in {SmallSeqLen, LargeSeqLen}
       \/ /\ prompts = <<Scenario.prompt>>
          /\ max_gen_len = Scenario.max_gen_len
          /\ max_seq_len = Scenario.max_seq_len
    /\ temperature \in {0, 1}
    /\ segment_size \in 0..MaxSegmentSize
    /\ hyper_input_type = Document
    /\ hyper_input_spans = <<>>
    /\ hyper_lora_start = 1
    /\ serial_generate = FALSE
    /\ model_args_segment_size = MaxSegmentSize
    /\ logit_rows = LogitRows
    /\ InitLocals
    /\ InitModel
    /\ NoDriver

Next == Setup \/ Iterate \/ Finalize

Spec == Init /\ [][Next]_vars

\* ------------------------------- specification: the hypernetwork paths
\* Records with a one-token instruction and a short or a long input, and
\* a record whose instruction alone is as long as the sequence bound.
AnnPool ==
    {[instruction |-> 1, input |-> n] : n \in {1, MainSeqLen}}
        \cup {[instruction |-> MainSeqLen, input |-> MainSeqLen]}

\* The policies a caller may name: the three of the documentation, the
\* default of generate, a substring of 'instruction' and another string.
HyperInputTypes ==
    {Instruction, Document, Both, <<>>, SubSeq(Instruction, 1, 2), <<"x">>}

\* Spans that end inside the first position and past every segment bound.
SpanPool == {<<0, 1>>, <<0, MaxSegmentSize + 1>>}

\* No span, or the same span for the first rows of the batch.
SpanLists(n) == {<<>>} \cup {[k \in 1..m |-> sp] : m \in 1..n, sp \in SpanPool}

\* Where the hyper-adapted layers start: nowhere, or at any layer.
HyperLoraStarts == {None} \cup {LayerIds[i] : i \in 1..n_layers}

\* Batches of non-empty prompts the configuration accepts, and batches
\* of one prompt too many.
HyperBatches ==
    UNION {[1..n -> {p \in PromptPool : Len(p) >= 1}] : n \in 1..max_batch_size}
        \cup {[k \in 1..(max_batch_size + 1) |-> p] :
                    p \in {q \in PromptPool : Len(q) >= 1}}

\* generate called on models of every layer layout and generation policy,
\* with every input policy, greedy, the model scoring one fixed token; the
\* caller passes the segment bound of the model or a smaller one.
DirectInit ==
    /\ prompts \in HyperBatches
    /\ max_gen_len = MaxGenLen
    /\ max_seq_len = LargeSeqLen
    /\ temperature = 0
    /\ segment_size \in 1..MaxSegmentSize
    /\ hyper_input_type \in HyperInputTypes
    /\ hyper_input_spans \in
            IF InstructionTest(hyper_input_type)
            THEN SpanLists(Len(prompts))
            ELSE {<<>>, [k \in 1..Len(prompts) |-> <<0, 1>>]}
    /\ hyper_lora_start \in HyperLoraStarts
    /\ serial_generate \in IF hyper_lora_start = None THEN {FALSE} ELSE BOOLEAN
    /\ model_args_segment_size \in {segment_size, MaxSegmentSize}
    /\ logit_rows \in {{r} : r \in LogitRows}
    /\ InitLocals
    /\ InitModel
    /\ NoDriver

\* main of example.py on a model of every layout and policy, with the
\* input policy of generate_params.json.
MainInit ==
    /\ local_ann \in UNION {[1..n -> AnnPool] : n \in 0..MaxAnn}
    /\ batchs = <<>>
    /\ main_pc = "split"
    /\ train = <<>>
    /\ gen = 0
    /\ prompts = <<>>
    /\ max_gen_len = MaxGenLen
    /\ max_seq_len = MainSeqLen
    /\ temperature = 0
    /\ segment_size = DefaultSegmentSize
    /\ hyper_input_type \in {Instruction, Document, Both}
    /\ hyper_input_spans = <<>>
    /\ hyper_lora_start \in HyperLoraStarts
    /\ serial_generate \in IF hyper_lora_start = None THEN {FALSE} ELSE BOOLEAN
    /\ model_args_segment_size \in {MaxSegmentSize, DefaultSegmentSize}
    /\ logit_rows \in {{r} : r \in LogitRows}
    /\ pc = "idle"
    /\ InitFrame
    /\ InitModel

\* The training loop on a model of every layout and policy.
TrainInit ==
    /\ prompts = <<>>
    /\ max_gen_len = 0
    /\ max_seq_len = LargeSeqLen
    /\ temperature = 0
    /\ segment_size = MaxSegmentSize
    /\ hyper_input_type = Instruction
    /\ hyper_input_spans = <<>>
    /\ hyper_lora_start \in HyperLoraStarts
    /\ serial_generate \in IF hyper_lora_start = None THEN {FALSE} ELSE BOOLEAN
    /\ model_args_segment_size = MaxSegmentSize
    /\ logit_rows = LogitRows
    /\ pc = "train"
    /\ InitFrame
    /\ InitModel
    /\ gen = 0
    /\ local_ann = <<>>
    /\ batchs = <<>>
    /\ main_pc = "none"
    /\ train = <<>>

HyperInit == DirectInit \/ MainInit \/ TrainInit

HyperNext ==
    Setup \/ Iterate \/ Finalize \/ SplitBatches \/ NextBatch \/ TrainCall

HyperSpec == HyperInit /\ [][HyperNext]_vars

\* ================================================================ claims
ShortestPrompt == MinPromptSize(prompts)
LongestPrompt == MaxPromptSize(prompts)

RECURSIVE SumSeqlen(_)
SumSeqlen(cs) == IF cs = <<>> THEN 0 ELSE cs[1].seqlen + SumSeqlen(Tail(cs))

\* C1: when the prefill range [0, L), L the shortest prompt length, is
\* segmented with bound S (L > S), the chunks passed to the successive
\* forward_inference calls are consecutive, their sizes sum to L, every
\* chunk has at most S positions and only the last may be shorter than S.
SegmentChunksPartition ==
    \A n \in 1..Len(iters) :
        (iters[n].segmented /\ ~iters[n].failed) =>
            LET cs == iters[n].calls
            IN  /\ n = 1
                /\ ShortestPrompt > segment_size
                /\ Len(cs) >= 1
                /\ SumSeqlen(cs) = ShortestPrompt
                /\ cs[1].lo = 0
                /\ cs[Len(cs)].hi = ShortestPrompt
                /\ \A i \in 1..Len(cs) : cs[i].seqlen <= segment_size
                /\ \A i \in 1..(Len(cs) - 1) :
                        cs[i].seqlen = segment_size /\ cs[i + 1].lo = cs[i].hi

\* A segmented prefill of several chunks whose last chunk is a short one.
SegmentChunksWitness ==
    /\ Len(iters) >= 1
    /\ iters[1].segmented
    /\ ~iters[1].failed
    /\ Len(iters[1].calls) >= 2
    /\ iters[1].calls[Len(iters[1].calls)].seqlen < segment_size

\* C2: no forward_inference call of a generate call, prefill chunk or
\* decode step, is passed more than segment_size token positions.
CallWithinSegment ==
    \A n \in 1..Len(iters) : \A i \in 1..Len(iters[n].calls) :
        iters[n].calls[i].seqlen <= segment_size

\* A call that made a segmented prefill and then a decode step.
CallWithinSegmentWitness ==
    /\ Len(iters) >= 2
    /\ iters[1].segmented
    /\ \A n \in 1..Len(iters) : ~iters[n].failed
    /\ Len(iters[1].calls) >= 2

\* C3: a shortest prompt of exactly S tokens takes the non-segmented branch
\* in the first iteration, with one call over S positions; one of S + 1
\* tokens (S a positive bound) takes the segmented branch, which yields
\* exactly two chunks, of S positions and of 1 position.
BoundaryBranch ==
    Len(iters) >= 1 =>
        LET it == iters[1]
        IN  /\ ShortestPrompt = segment_size =>
                /\ ~it.segmented
                /\ Len(it.calls) = 1
                /\ it.calls[1].lo = 0
                /\ it.calls[1].seqlen = segment_size
            /\ (ShortestPrompt = segment_size + 1 /\ segment_size >= 1) =>
                /\ it.segmented
                /\ Len(it.calls) = 2
                /\ it.calls[1].seqlen = segment_size
                /\ it.calls[2].seqlen = 1

\* The prompt of S + 1 tokens after its prefill, S being more than one.
BoundaryBranchWitness ==
    /\ Len(iters) >= 1
    /\ segment_size >= 2
    /\ ShortestPrompt = segment_size + 1
    /\ iters[1].segmented
    /\ steps >= 1

\* The columns the decode steps have written so far.
LastWritten == ShortestPrompt + steps - 1
WrittenCols == ShortestPrompt..LastWritten

\* C4: at every grid position marked as an original prompt token the grid
\* holds the original input token after any number of decode steps,
\* whatever was sampled for that column.
PromptMasking ==
    input_text_mask # <<>> =>
        \A k \in Rows : \A c \in 0..(total_len - 1) :
            At(input_text_mask, k, c) =>
                /\ c < Len(prompts[k])
                /\ At(tokens, k, c) = prompts[k][c + 1]

\* A step sampled, for a marked column, another token than the prompt's.
PromptMaskingWitness ==
    /\ steps >= 1
    /\ \E k \in Rows :
        /\ At(input_text_mask, k, LastWritten)
        /\ sampled[k] # prompts[k][LastWritten + 1]
        /\ sampled[k] # At(tokens, k, LastWritten)

\* C5: with a batch of one, once a step has written the end-of-sequence
\* token the loop is over: that column is the last one written, every
\* later column holds the pad value, and from then on no forward call is
\* made and the grid does not change.
EosWritten == bsz = 1 /\ \E c \in WrittenCols : At(tokens, 1, c) = eos_id

EarlyStopState ==
    EosWritten =>
        /\ early_stop
        /\ pc \in {"finalize", "done"}
        /\ At(tokens, 1, LastWritten) = eos_id
        /\ \A c \in WrittenCols : At(tokens, 1, c) = eos_id => c = LastWritten
        /\ \A c \in (LastWritten + 1)..(total_len - 1) : At(tokens, 1, c) = pad_id
        /\ Len(iters) = steps

EarlyStop ==
    /\ []EarlyStopState
    /\ [][EosWritten => UNCHANGED <<tokens, iters, steps, cur_pos>>]_vars

\* The single sequence stopped on eos with columns left after it.
EarlyStopWitness ==
    /\ bsz = 1
    /\ early_stop
    /\ pc = "done"
    /\ LastWritten < total_len - 1

\* C6: with more than one sequence no token stops the loop: the loop
\* always goes on one column at a time, it ends, and when it has ended
\* every column from the shortest prompt length to total_len - 1 has been
\* written, in exactly total_len - min_prompt_size steps.
\* The enabling condition of Iterate: the loop is at an iteration, which
\* either raises or finds logits and a sample to go on with.
IterateEnabled ==
    /\ pc = "loop"
    /\ \/ StepFails(prev_pos, cur_pos, segment_size)
       \/ \E lg \in [Rows -> logit_rows] : \E nt \in [Rows -> Vocab] :
                \A k \in Rows : nt[k] \in SampleRow(temperature, lg[k])

BatchLoopState ==
    bsz > 1 =>
        /\ ~early_stop
        /\ pc = "loop" => (cur_pos < total_len /\ IterateEnabled)
        /\ pc \in {"finalize", "done"} =>
                /\ steps = total_len - ShortestPrompt
                /\ WrittenCols = ShortestPrompt..(total_len - 1)
                /\ cur_pos = total_len

BatchRunsToEnd ==
    /\ []BatchLoopState
    /\ [][(bsz > 1 /\ pc = "loop" /\ pc' # "error") =>
            /\ cur_pos' = cur_pos + 1
            /\ steps' = steps + 1
            /\ pc' = IF cur_pos' < total_len THEN "loop" ELSE "finalize"]_vars

\* A batch of two ran to the end although its first row produced eos
\* before the last column.
BatchRunsToEndWitness ==
    /\ bsz = 2
    /\ pc = "done"
    /\ \E c \in WrittenCols : c < LastWritten /\ At(tokens, 1, c) = eos_id

\* C7: the list handed to decode for sequence i is the grid row over the
\* columns [len(prompt_i), len(prompt_i) + max_gen_len), cut before the
\* first eos of that slice: at most max_gen_len tokens, none of them eos,
\* none of them from a prompt column.
GenRegionEnd(i) == Min(Len(prompts[i]) + max_gen_len, total_len)

FinalizeCut ==
    pc = "done" =>
        \A i \in Rows :
            LET d == decoded[i]
                p == Len(prompts[i])
            IN  /\ Len(d) <= max_gen_len
                /\ p + Len(d) <= GenRegionEnd(i)
                /\ \A j \in 1..Len(d) :
                        d[j] = At(tokens, i, p + j - 1) /\ d[j] # eos_id
                /\ p + Len(d) < GenRegionEnd(i) => At(tokens, i, p + Len(d)) = eos_id

\* A row cut at an eos that follows a generated token, in a grid where a
\* row has more generated columns than max_gen_len.
FinalizeCutWitness ==
    /\ pc = "done"
    /\ \E i \in Rows :
        /\ Len(decoded[i]) >= 1
        /\ Len(prompts[i]) + Len(decoded[i]) < GenRegionEnd(i)
    /\ \E i \in Rows : Len(prompts[i]) + max_gen_len < total_len

\* C8: for a single prompt with greedy sampling every step writes, in the
\* next column, an entry of maximal logit (the first such entry), so the
\* generated columns hold the argmax tokens in step order, and the
\* finalized output is that sequence up to but excluding the first eos,
\* with at most max_gen_len tokens; prompt [5, 9, 2] with max_gen_len 3 and
\* steps favouring 7, 7, 1 ends with grid row [5, 9, 2, 7, 7, 1] and
\* output [7, 7].
Generated == [j \in 1..steps |-> At(tokens, 1, Len(prompts[1]) + j - 1)]

GreedyEndToEnd ==
    /\ (temperature = 0 /\ steps >= 1) =>
            \A k \in Rows :
                /\ \A u \in Vocab : logits[k][u] <= logits[k][sampled[k]]
                /\ \A u \in Vocab :
                        logits[k][u] = logits[k][sampled[k]] => sampled[k] <= u
    /\ (bsz = 1 /\ steps >= 1) => At(tokens, 1, LastWritten) = sampled[1]
    /\ (temperature = 0 /\ bsz = 1 /\ pc = "done") =>
            LET d == decoded[1]
            IN  /\ Len(d) <= max_gen_len
                /\ Len(d) <= steps
                /\ \A j \in 1..Len(d) : d[j] = Generated[j] /\ d[j] # eos_id
                /\ Len(d) < steps => Generated[Len(d) + 1] = eos_id
    /\ (/\ temperature = 0
        /\ prompts = <<Scenario.prompt>>
        /\ max_gen_len = Scenario.max_gen_len
        /\ max_seq_len = Scenario.max_seq_len
        /\ Generated = <<OtherTok, OtherTok, eos_id>>
        /\ pc = "done") =>
            /\ tokens[1] = Scenario.prompt \o <<OtherTok, OtherTok, eos_id>>
            /\ decoded[1] = <<OtherTok, OtherTok>>

\* The scenario has run to its end.
GreedyEndToEndWitness ==
    /\ temperature = 0
    /\ prompts = <<Scenario.prompt>>
    /\ max_gen_len = Scenario.max_gen_len
    /\ Generated = <<OtherTok, OtherTok, eos_id>>
    /\ pc = "done"

\* C9: the grid has exactly min(max_seq_len, max_gen_len + longest prompt
\* length) columns, and no forward call and no write reaches a column at
\* or beyond that bound, also when a prompt is longer than max_seq_len.
LengthBound(longest) ==
    IF max_seq_len < max_gen_len + longest THEN max_seq_len
    ELSE max_gen_len + longest

TotalLengthBound ==
    LET bound == LengthBound(LongestPrompt)
    IN  /\ tokens # <<>> =>
                /\ \E k \in Rows : Len(prompts[k]) = LongestPrompt
                /\ \A k \in Rows : Len(prompts[k]) <= LongestPrompt
                /\ total_len = bound
                /\ \A k \in 1..Len(tokens) : Len(tokens[k]) = bound
        /\ \A n \in 1..Len(iters) : \A i \in 1..Len(iters[n].calls) :
                0 <= iters[n].calls[i].lo /\ iters[n].calls[i].hi <= bound
        /\ \A c \in WrittenCols : c < bound
        /\ pc = "loop" => cur_pos < bound
        /\ (\E k \in Rows : Len(prompts[k]) > max_seq_len) =>
                (pc \in {"entry", "error"} /\ iters = <<>>)

\* A prompt longer than max_seq_len met the grid.
TotalLengthBoundWitness ==
    /\ tokens # <<>>
    /\ pc = "error"
    /\ \E k \in Rows : Len(prompts[k]) > max_seq_len

\* C10: a decode step changes only column cur_pos of the grid, and a
\* position that holds a prompt token or an already generated token is
\* never changed to a different value by a later step, prompts that
\* contain the pad value included.
WriteDiscipline ==
    [][pc = "loop" =>
        \A k \in Rows : \A c \in 0..(total_len - 1) :
            /\ c # cur_pos => At(tokens', k, c) = At(tokens, k, c)
            /\ (c < Len(prompts[k]) \/ c \in WrittenCols) =>
                    At(tokens', k, c) = At(tokens, k, c)]_vars

\* C20: the column ranges of the successive forward_inference calls of a
\* generate call are contiguous and disjoint, each call's start_pos is the
\* number of positions processed before it, the calls of the prefill cover
\* exactly [0, L), L the shortest prompt length (L = 0 included), and each
\* later call processes exactly one new column.
PositionCoverage ==
    \A n \in 1..Len(iters) :
        LET cs == iters[n].calls
        IN  /\ \A i \in 1..Len(cs) :
                    /\ cs[i].start_pos = cs[i].lo
                    /\ cs[i].hi = cs[i].lo + cs[i].seqlen
                    /\ cs[i].seqlen >= 0
            /\ \A i \in 1..(Len(cs) - 1) : cs[i + 1].lo = cs[i].hi
            /\ (n = 1 /\ cs # <<>>) =>
                    cs[1].lo = 0 /\ cs[Len(cs)].hi = ShortestPrompt
            /\ n > 1 =>
                    /\ Len(cs) = 1
                    /\ cs[1].seqlen = 1
                    /\ cs[1].lo = ShortestPrompt + n - 2
                    /\ ~iters[n - 1].failed

\* A prefill of several chunks followed by two decode steps.
PositionCoverageWitness ==
    /\ Len(iters) >= 3
    /\ iters[1].segmented
    /\ Len(iters[1].calls) >= 2
    /\ \A n \in 1..Len(iters) : ~iters[n].failed

\* C11: within one generate call the memory and the norm_term start empty,
\* every forward_inference call after the first, later prefill chunk or
\* decode step, receives exactly the memory and norm_term the call before
\* it returned, and a new generate call starts again from empty state:
\* no call ever receives state born in an earlier generate call.
MemoryCarry ==
    /\ \A i \in 1..Len(fwd) :
            /\ fwd[i].mem_in =
                    IF i = 1 THEN EmptyState(gen) ELSE fwd[i - 1].mem_out
            /\ fwd[i].norm_in =
                    IF i = 1 THEN EmptyState(gen) ELSE fwd[i - 1].norm_out
            /\ fwd[i].mem_in.born = gen
            /\ fwd[i].norm_in.born = gen
            /\ i > 1 => ~fwd[i - 1].failed
    /\ pc \in {"loop", "finalize", "done"} =>
            /\ memory = IF fwd = <<>> THEN EmptyState(gen)
                        ELSE fwd[Len(fwd)].mem_out
            /\ norm_term = IF fwd = <<>> THEN EmptyState(gen)
                           ELSE fwd[Len(fwd)].norm_out

\* The second generate call of a run of main, after a prefill and a
\* decode step that both updated the memory.
MemoryCarryWitness ==
    /\ gen = 2
    /\ Len(fwd) >= 2
    /\ fwd[2].mem_in.n > 0
    /\ fwd[2].mem_out.n > fwd[2].mem_in.n


\* The hypernetwork invocations of the forward calls from the i-th on.
RECURSIVE HyperCalls(_)
HyperCalls(i) ==
    IF i > Len(fwd) THEN <<>> ELSE fwd[i].hyper \o HyperCalls(i + 1)

\* The hyper-adapted layers: those from the configured start index on.
HyperAdapted ==
    IF hyper_lora_start = None THEN {}
    ELSE {l \in 0..(n_layers - 1) : l >= hyper_lora_start}

\* C12: under the parallel policy, in a generate call with non-segmented
\* prefill the hypernetwork is invoked exactly once, in the forward call
\* with start_pos = 0, and layer k of the hyper-adapted range holds entry
\* k of what that one invocation returned.
ParallelOnce ==
    (/\ ~serial_generate
     /\ HyperAdapted # {}
     /\ fwd # <<>>
     /\ ~iters[1].segmented) =>
        /\ Len(HyperCalls(1)) = 1
        /\ fwd[1].start_pos = 0
        /\ Len(fwd[1].hyper) = 1
        /\ \A l \in HyperAdapted :
                lora[l + 1] = <<Param(fwd[1].hyper[1], l - hyper_lora_start)>>

\* C13: under the serial policy, in a generate call on a model with N
\* hyper-adapted layers the hypernetwork is invoked exactly N times, all
\* in the forward call with start_pos = 0, once per hyper-adapted layer in
\* layer order with hyper_index 0..N-1, each time on the hidden states
\* entering that layer, and never in a later chunk or decode step.
SerialPerLayer ==
    (/\ serial_generate
     /\ HyperAdapted # {}
     /\ fwd # <<>>) =>
        LET N == Cardinality(HyperAdapted)
        IN  /\ fwd[1].start_pos = 0
            /\ Len(fwd[1].hyper) = N
            /\ \A i \in 1..Len(fwd[1].hyper) :
                    /\ fwd[1].hyper[i].hyper_index = i - 1
                    /\ fwd[1].hyper[i].pooled[1].h = hyper_lora_start + i - 1
            /\ HyperCalls(2) = <<>>

\* C14, as stated: under the parallel policy every forward call with
\* start_pos > 0, of generate or of training, regenerates the LoRA
\* parameters by one hypernetwork call on the pooled vector cached by the
\* first segment; under the serial policy such a call never invokes the
\* hypernetwork.
RegenerateEverySegment ==
    HyperAdapted # {} =>
        /\ \A i \in 1..Len(fwd) :
                (fwd[i].start_pos > 0 /\ ~fwd[i].failed) =>
                    IF serial_generate THEN fwd[i].hyper = <<>>
                    ELSE /\ Len(fwd[i].hyper) = 1
                         /\ Len(fwd[1].hyper) = 1
                         /\ fwd[i].hyper[1].pooled = fwd[1].hyper[1].pooled
        /\ \A i \in 1..Len(train) :
                (train[i].start_pos > 0 /\ ~train[i].failed) =>
                    IF serial_generate THEN train[i].hyper = <<>>
                    ELSE /\ Len(train[i].hyper) = 1
                         /\ train[i].hyper[1].pooled = train[i].cached

\* The training call j whose pooled vector call i finds cached.
CachedBy(i, j) ==
    /\ j < i
    /\ train[j].start_pos = 0
    /\ \A k \in (j + 1)..(i - 1) : train[k].start_pos # 0
    /\ Len(train[j].hyper) = 1
    /\ train[j].hyper[1].pooled = train[i].cached

\* C14, amended: forward_inference, the pass generate drives, never
\* invokes the hypernetwork in a call with start_pos > 0, under either
\* policy. Only forward, the training pass, regenerates: under the
\* parallel policy each of its calls with start_pos > 0 that runs the
\* hyper-adapted block makes one hypernetwork call on self.pooling_states,
\* the vector cached by the latest call with start_pos = 0, and runs
\* hyper-adapted layer k with entry k of its result; under the serial
\* policy such a call never invokes the hypernetwork.
RegenerateInTraining ==
    /\ \A i \in 1..Len(fwd) : fwd[i].start_pos > 0 => fwd[i].hyper = <<>>
    /\ \A i \in 1..Len(train) :
            (train[i].start_pos > 0 /\ ~train[i].failed) =>
                IF ~serial_generate /\ Truthy(hyper_lora_start)
                THEN /\ Len(train[i].hyper) = 1
                     /\ train[i].hyper[1].hyper_index = None
                     /\ train[i].hyper[1].pooled = train[i].cached
                     /\ \E j \in 1..Len(train) : CachedBy(i, j)
                     /\ \A r \in 1..Len(train[i].ran) :
                            train[i].ran[r].layer >= hyper_lora_start =>
                                train[i].ran[r].lora =
                                    <<Param(train[i].hyper[1],
                                            train[i].ran[r].layer - hyper_lora_start)>>
                ELSE train[i].hyper = <<>>

\* A parallel training run: a first segment, then a later segment that
\* regenerated the parameters of two hyper-adapted layers.
RegenerateInTrainingWitness ==
    /\ ~serial_generate
    /\ hyper_lora_start = 1
    /\ Len(train) >= 2
    /\ train[1].start_pos = 0
    /\ train[2].start_pos > 0
    /\ Len(train[2].hyper) = 1
    /\ Len(train[2].ran) = n_layers

\* Some row of the mask sums to zero.
HasZeroRow(pm) == \E k \in 1..Len(pm) : Denom(pm)[k] = 0

\* C15: whenever a row of the pooling mask used in a forward call with
\* start_pos = 0 sums to zero, the call fails for the whole batch, and the
\* hypernetwork is never invoked on a pooled vector that was produced by
\* dividing by zero.
ZeroMaskRejected ==
    \A i \in 1..Len(fwd) :
        /\ \A n \in 1..Len(fwd[i].hyper) : ~IsNaN(fwd[i].hyper[n].pooled)
        /\ (/\ fwd[i].start_pos = 0
            /\ Truthy(hyper_lora_start)
            /\ HasZeroRow(fwd[i].prompt_mask)) =>
                fwd[i].failed /\ fwd[i].hyper = <<>>

\* C16: under the instruction policy, if some caller-supplied span ends
\* past the segment length bound, generate fails before any forward call,
\* on the segmented and on the non-segmented prefill branch alike, and no
\* span is ever cut short by the width of the mask.
SpanBoundChecked ==
    hyper_input_type = Instruction =>
        /\ (\E j \in 1..Len(hyper_input_spans) :
                hyper_input_spans[j][2] > segment_size) =>
                    fwd = <<>> /\ pc \notin {"finalize", "done"}
        /\ \A i \in 1..Len(fwd) : \A j \in 1..Len(hyper_input_spans) :
                fwd[i].start_pos = 0 =>
                    hyper_input_spans[j][2] <= Len(fwd[i].prompt_mask[j])

\* C17: a generate call whose hyper_input_type is not one of instruction,
\* document and both is rejected before any computation (no token grid, no
\* forward call), and the mask built from the spans is passed only when
\* the policy is exactly 'instruction': under any other policy the pooling
\* mask of the prefill is the original-prompt mask.
PolicyValidated ==
    /\ (pc # "train" /\ hyper_input_type \notin {Instruction, Document, Both}) =>
            /\ pc \in {"entry", "error"}
            /\ tokens = <<>>
            /\ fwd = <<>>
    /\ hyper_input_type # Instruction =>
            \A i \in 1..Len(fwd) :
                fwd[i].start_pos = 0 =>
                    fwd[i].prompt_mask =
                        IF iters[1].segmented
                        THEN TextMask(input_text_mask, 0, segment_size)
                        ELSE TextMask(input_text_mask, fwd[i].lo, fwd[i].hi)

\* C18: under the `both` policy the pooled state given to the
\* hypernetwork is the concatenation of two pools, one per span, twice
\* the embedding width, and is not the pool over the original-prompt mask;
\* under `document` it is the single pool over the original-prompt mask.
BothConcatenates ==
    \A i \in 1..Len(fwd) : \A n \in 1..Len(fwd[i].hyper) :
        LET pooled == fwd[i].hyper[n].pooled
            text == IF iters[1].segmented
                    THEN TextMask(input_text_mask, 0, segment_size)
                    ELSE TextMask(input_text_mask, fwd[i].lo, fwd[i].hi)
        IN  /\ hyper_input_type = Both =>
                    /\ Len(pooled) = 2
                    /\ \A b \in 1..Len(pooled) : pooled[b].weights # text
            /\ hyper_input_type = Document =>
                    /\ Len(pooled) = 1
                    /\ pooled[1].weights = text

\* The elements of the chunks, in order.
RECURSIVE Flatten(_)
Flatten(ss) == IF ss = <<>> THEN <<>> ELSE ss[1] \o Flatten(Tail(ss))

\* Where generate stands when its batch was refused: nothing built.
RefusedAtEntry ==
    /\ pc \in {"entry", "error"}
    /\ total_len = 0
    /\ tokens = <<>>
    /\ input_text_mask = <<>>
    /\ iters = <<>>
    /\ fwd = <<>>

\* C19: a generate call with more prompts than max_batch_size fails at
\* entry, before the token grid is built and before any forward call; the
\* check is made once per call, at the entry, which a call passes once;
\* and split_list cuts the records of main into chunks of 1 to
\* max_batch_size records, in order, so that no generate call of main is
\* handed more than max_batch_size prompts.
BatchSizeChecked ==
    /\ [](Len(prompts) > max_batch_size => RefusedAtEntry)
    /\ [](main_pc = "loop" =>
            /\ Flatten(batchs) = local_ann
            /\ \A b \in 1..Len(batchs) :
                    Len(batchs[b]) >= 1 /\ Len(batchs[b]) <= max_batch_size
            /\ gen >= 1 =>
                    /\ Len(prompts) = Len(batchs[gen])
                    /\ Len(prompts) <= max_batch_size
                    /\ ~(pc = "error" /\ tokens = <<>>))
    /\ [][(pc = "entry" => pc' # "entry")
            /\ (pc' = "entry" => gen' = gen + 1)]_vars

\* A batch of one prompt too many, refused.
BatchSizeCheckedWitness ==
    /\ Len(prompts) = max_batch_size + 1
    /\ pc = "error"
    /\ tokens = <<>>

\* The indices of the layers a forward call ran, in the order it ran them.
LayersRun(ran) == [r \in 1..Len(ran) |-> ran[r].layer]

\* C21: for every configured start index of the hyper-adapted layers, the
\* index 0 (all layers hyper-adapted) and no hyper-adapted layer included,
\* each forward_inference call and each forward call runs every layer of
\* the model exactly once, in index order: the layers before the start
\* index first, then the hyper-adapted ones.
LayerPartition ==
    /\ \A i \in 1..Len(fwd) : LayersRun(fwd[i].ran) = LayerIds
    /\ \A i \in 1..Len(train) :
            ~train[i].failed => LayersRun(train[i].ran) = LayerIds

\* C24: for every record of a batch of main, whatever the lengths of its
\* instruction and of its input, the prompt built for it has at most
\* max_seq_len - min_gen_len tokens, the input tokens it holds are a
\* prefix of the tokenized input, and the recorded document span
\* (len(part1), len(part1) + len(input_token)) lies inside the prompt and
\* covers exactly those input tokens.
PromptBudget ==
    (main_pc = "loop" /\ gen >= 1) =>
        \A k \in 1..Len(prompts) :
            LET x == batchs[gen][k]
                doc == IF hyper_input_type = Document THEN hyper_input_spans[k]
                       ELSE DocumentSpan(x, max_seq_len)
                kept == SubSeq(prompts[k], doc[1] + 1, doc[2])
            IN  /\ Len(prompts[k]) <= max_seq_len - min_gen_len
                /\ doc[1] = Part1Len(x)
                /\ doc[1] <= doc[2]
                /\ doc[2] <= Len(prompts[k])
                /\ Len(kept) <= x.input
                /\ kept = SubSeq(InputToks(x.input), 1, Len(kept))
                /\ Len(prompts[k]) = Part1Len(x) + Len(kept) + Prompt2Len

\* C23: every forward_inference call of a prefill is passed a chunk of at
\* most model_args.segment_size positions, the side of the causal mask
\* the call builds, whatever that configured bound is, also when generate
\* is called as main calls it, without a segment_size argument.
SegmentBoundConsistent ==
    \A i \in 1..Len(fwd) :
        LET chunk == fwd[i].hi - fwd[i].lo
        IN  /\ fwd[i].mask = MaskShape(model_args_segment_size)
            /\ fwd[i].hi <= ShortestPrompt =>
                    /\ chunk <= fwd[i].mask[3]
                    /\ chunk <= fwd[i].mask[4]

\* C22: across the generate calls made on one model object, whenever a
\* hyper-adapted layer runs, the LoRA parameters it holds were generated
\* in the same generate call, by a hypernetwork invocation of that call's
\* forward call with start_pos = 0, from a vector pooled there (parallel
\* policy: from the output of the last layer before the hyper-adapted
\* ones; serial policy: from the hidden states entering that layer), and
\* were applied before the layer ran; the layer never runs with the
\* parameters an earlier generate call left on it.
NoStaleParams ==
    \A i \in 1..Len(fwd) : \A r \in 1..Len(fwd[i].ran) :
        LET l == fwd[i].ran[r].layer
            held == fwd[i].ran[r].lora
        IN  l \in HyperAdapted =>
                /\ Len(held) = 1
                /\ held[1].inv.call = [gen |-> gen, n |-> 1]
                /\ fwd[1].start_pos = 0
                /\ \E n \in 1..Len(fwd[1].hyper) : fwd[1].hyper[n] = held[1].inv
                /\ held[1].head = l - hyper_lora_start
                /\ Len(held[1].inv.pooled) = 1
                /\ held[1].inv.pooled[1].weights = fwd[1].prompt_mask
                /\ IF serial_generate
                   THEN /\ held[1].inv.hyper_index = l - hyper_lora_start
                        /\ held[1].inv.pooled[1].h = l
                   ELSE /\ held[1].inv.hyper_index = None
                        /\ held[1].inv.pooled[1].h = hyper_lora_start

\* The second generate call of a run of main, on a model whose
\* hyper-adapted layers still held the parameters of the first call, ran
\* those layers in its prefill and again in a decode step.
NoStaleParamsWitness ==
    /\ gen = 2
    /\ Truthy(hyper_lora_start)
    /\ Len(fwd) >= 2
    /\ fwd[2].start_pos > 0
    /\ \E r \in 1..Len(fwd[2].ran) :
            /\ fwd[2].ran[r].layer \in HyperAdapted
            /\ fwd[2].ran[r].lora # <<>>
            /\ fwd[2].ran[r].lora[1].inv.call.gen = 2
====
